---- MODULE Spec2Model ----
(***************************************************************************)
(* Asynchronous log ingestion and query pipeline of the sentiment-agent    *)
(* service (src/app/core/db_logging.py).                                   *)
(*                                                                         *)
(*   producers --emit--> bounded Queue --QueueListener thread-->           *)
(*        _db_handler --INSERT--> SQLite table "logs"                      *)
(*   AsyncDBLogger.get_logs / clear_old_logs read and purge the table.     *)
(*                                                                         *)
(* Timestamps are ISO-8601 strings in the program; here they are integers  *)
(* whose order is the lexicographic order of the strings, with 0 standing  *)
(* for the empty string.  Python's None is the empty tuple << >> and a     *)
(* supplied value v is << v >>.                                            *)
(***************************************************************************)
EXTENDS Integers, Sequences, FiniteSets, TLC

\* ------------------------------------------------------------------ bounds
MaxRecords == 3      \* logging calls made in one behaviour
QueueSize  == 2      \* queue_size handed to AsyncDBLogHandler
MaxTs      == 2      \* distinct creation instants 1..MaxTs
UtcOffset  == 1      \* shift applied by the local-time rendering
MaxRows    == 2      \* rows of a stored table in the query specification

\* ------------------------------------------------------- program constants
DefaultLimit == 100  \* get_logs(limit=100)

\* ------------------------------------------------------------ input sets
Producers   == {"p1", "p2"}
Created     == 1..MaxTs
LevelNames  == {"INFO", "ERROR"}
LoggerNames == {"app", "db"}
\* attributes a caller adds to the event through extra=...:
\* none, a literal (str/int/...), an object with the default repr, the
\* float infinity, or an object whose repr is a call expression
UserAttrs   == {"absent", "lit", "obj", "inf", "code"}

None     == << >>
Some(v)  == << v >>
Sentinel == 0
NoRecord == Sentinel

VARIABLES
  calls,      \* logging calls that reached emit so far
  accepted,   \* records the queue took, in arrival order; a record's number
              \* is its index here
  emitOut,    \* how the most recent emit call ended
  queue,      \* self.queue: record numbers, Sentinel for the stop marker
  drainPc,    \* QueueListener._monitor thread
  cur,        \* record the drain thread holds
  logs,       \* committed rows of table logs
  seq,        \* sqlite_sequence of the AUTOINCREMENT key
  dbWriter,   \* thread holding SQLite's write lock
  written,    \* record numbers whose INSERT committed
  failed,     \* record numbers whose write was reported on stderr
  preClose,   \* record numbers queued before close() was called
  closePc,    \* the close() call
  purgeCut,   \* cutoff of the clear_old_logs in progress
  purgeRet,   \* value returned by the last clear_old_logs
  lastQuery,  \* outcome of the last get_logs
  purgeGone,  \* rows the running DELETE has removed, not yet committed
  sinkFault,  \* what is wrong with the store under logs/, if anything
  setupOut,   \* how setup_logging ended
  rootHandlers, \* handlers attached to the root logger
  rootLevel,  \* threshold of the root logger
  authSecret, \* settings.AUTH_SECRET
  resp,       \* the last request to /logging and its response
  schema,     \* tables and indexes of the store file
  cfgDbPath,  \* settings.LOG_DB_PATH
  lastEvent   \* the last call of a logger method and what became of it

\* state of the HTTP service around the pipeline
svc == << sinkFault, setupOut, rootHandlers, rootLevel, authSecret, resp,
         schema, cfgDbPath, lastEvent >>

vars == << calls, accepted, emitOut, queue, drainPc, cur, logs, seq, dbWriter,
           written, failed, preClose, closePc, purgeCut, purgeRet, lastQuery,
           purgeGone, svc >>

\* ---------------------------------------------------------- the queue
\* a queue built without a capacity (maxsize=0) is never full
QueueNeverFull(q) == FALSE

\* queue.Queue(maxsize=queue_size): full when it holds maxsize entries
QueueFull(q) == Len(q) >= QueueSize

\* put keeping the newest entry and discarding the oldest
PutDropOldest(q, x) ==
  IF QueueFull(q) THEN [raised |-> FALSE, q |-> Append(Tail(q), x)]
                  ELSE [raised |-> FALSE, q |-> Append(q, x)]

\* Queue.put_nowait: raises queue.Full on a full queue, else appends
PutNowait(q, x) ==
  IF QueueFull(q) THEN [raised |-> TRUE,  q |-> q]
                  ELSE [raised |-> FALSE, q |-> Append(q, x)]

\* taking the entry queued last
QueueGetNewest(q) == [item |-> q[Len(q)], q |-> SubSeq(q, 1, Len(q) - 1)]

\* Queue.get on a non-empty queue: the entry queued first
QueueGet(q) == [item |-> Head(q), q |-> Tail(q)]

\* ------------------------------------------------- record to row (write)
\* datetime.fromtimestamp(created).isoformat(): local wall-clock text
IsoFormat(created) == created + UtcOffset

\* the dict comprehension over record.__dict__: the attributes not in the
\* exclusion list.  stack_info is not excluded and is always an attribute
\* (None after QueueHandler.prepare); a caller's extra attribute is kept.
ExtraDict(user) ==
  IF user = "absent"
  THEN [k \in {"stack_info"} |-> "None"]
  ELSE [k \in {"stack_info", "user"} |-> IF k = "stack_info" THEN "None" ELSE user]

\* repr() of one value, as str(dict) renders it
Repr(v) == CASE v = "None" -> "None"
             [] v = "lit"  -> "'lit'"
             [] v = "inf"  -> "inf"
             [] v = "code" -> "call()"
             [] OTHER      -> "<object at 0x>"

\* str(log_record.extra) if log_record.extra else None
StoredExtra(extra) ==
  IF DOMAIN extra = {}
  THEN None
  ELSE Some([k \in DOMAIN extra |-> Repr(extra[k])])

\* log_record = LogRecord(...): the record _db_handler builds from the
\* logging.LogRecord the queue delivered.  QueueHandler.prepare has merged
\* the arguments into the message and set exc_text to None.
ToLogRecord(rec) ==
  [ timestamp    |-> IsoFormat(rec.created),
    level        |-> rec.levelname,
    logger_name  |-> rec.name,
    message      |-> "msg",
    exc_info     |-> None,
    thread_name  |-> rec.thread,
    process_name |-> "MainProcess",
    extra        |-> ExtraDict(rec.user) ]

\* the tuple bound to the INSERT's placeholders, with the key SQLite assigns
ToRow(id, n, rec) ==
  LET lr == ToLogRecord(rec)
  IN  [ id           |-> id,
        rec          |-> n,
        timestamp    |-> lr.timestamp,
        level        |-> lr.level,
        logger_name  |-> lr.logger_name,
        message      |-> lr.message,
        exc_info     |-> lr.exc_info,
        thread_name  |-> lr.thread_name,
        process_name |-> lr.process_name,
        extra        |-> StoredExtra(lr.extra) ]

\* INTEGER PRIMARY KEY AUTOINCREMENT: one more than the largest key ever used
NextRowId(s, tbl) == s + 1

\* the table when a transaction that executed the INSERT commits after all
RowsKeptOnError(tbl, row) == tbl \cup {row}

\* the table when the write raised: the connection is dropped without
\* commit, so the pending INSERT is rolled back
RowsOnError(tbl, row) == tbl

\* a drain thread that the exception unwinds
DrainDiesOnError == "exited"

\* except Exception: print(..., file=sys.stderr); _monitor goes on to the
\* next dequeue
DrainAfterError == "idle"

\* a listener that is built and never started
ListenerNotStarted == "exited"

\* self.listener.start(): the drain thread blocks in dequeue
ListenerStart == "idle"

\* --------------------------------------------------------- initial state
NoQuery == [ level |-> None, start_time |-> None, end_time |-> None,
             logger_name |-> None, limit |-> 0, ok |-> TRUE, rows |-> << >>,
             executed |-> FALSE ]

\* logging._nameToLevel: the names Logger.setLevel accepts, with their numbers
LevelNo ==
  [ n \in {"CRITICAL", "FATAL", "ERROR", "WARN", "WARNING", "INFO", "DEBUG", "NOTSET"} |->
      CASE n \in {"CRITICAL", "FATAL"} -> 50
        [] n = "ERROR"                 -> 40
        [] n \in {"WARN", "WARNING"}   -> 30
        [] n = "INFO"                  -> 20
        [] n = "DEBUG"                 -> 10
        [] OTHER                       -> 0 ]

\* no request to /logging has been made
NoResp == [ op |-> "none", token |-> None, arg |-> None, ran |-> FALSE,
            status |-> 0, body |-> << >> ]

\* what _initialize_db creates: the table and its two indexes
SchemaObjects == {"logs", "idx_timestamp", "idx_level"}

\* db_path of setup_logging when the caller passes none: f"{log_dir}/logs.db"
DefaultDbPath == "logs/logs.db"

\* no logger method has been called
NoEvent == [ logger |-> "", severity |-> 0, threshold |-> 0, offered |-> FALSE ]

\* the service after a lifespan start on a sound store: setup_logging
\* (settings.LOG_LEVEL = "INFO") returned with the console and the database
\* handler on the root logger; no AUTH_SECRET; no request yet
ServiceUp ==
  /\ purgeGone = {}
  /\ sinkFault = "none"
  /\ setupOut = "returned"
  /\ rootHandlers = {"console", "db"}
  /\ rootLevel = LevelNo["INFO"]
  /\ authSecret = None
  /\ resp = NoResp
  /\ schema = SchemaObjects
  /\ cfgDbPath = DefaultDbPath
  /\ lastEvent = NoEvent

\* AsyncDBLogHandler.__init__ on a fresh store: empty bounded queue, table
\* created empty by _initialize_db, listener thread started
Init ==
  /\ calls = 0
  /\ accepted = << >>
  /\ emitOut = "none"
  /\ queue = << >>
  /\ drainPc = ListenerStart
  /\ cur = NoRecord
  /\ logs = {}
  /\ seq = 0
  /\ dbWriter = "none"
  /\ written = {}
  /\ failed = {}
  /\ preClose = {}
  /\ closePc = "none"
  /\ purgeCut = 0
  /\ purgeRet = 0
  /\ lastQuery = NoQuery
  /\ ServiceUp

\* ------------------------------------------------------------- producers
\* what each producer thread logs: (levelname, logger name, extra attribute)
Payload(t) == IF t = "p1" THEN << "INFO", "app", "absent" >>
                          ELSE << "ERROR", "db", "obj" >>

\* an emit that lets through everything but a full queue
CaughtOnlyFull(exc) == exc = "dropped_full"

\* QueueHandler.emit: "except Exception: self.handleError(record)" takes
\* the formatting errors of prepare() and the queue.Full of enqueue()
Caught(exc) == exc \in {"format_error", "dropped_full"}

\* AsyncDBLogHandler.emit -> QueueHandler.emit: prepare() formats the
\* message, enqueue() is put_nowait; any exception of either goes to
\* handleError, which writes to stderr and returns.
EmitRecord(rec, fmtOk) ==
  /\ calls < MaxRecords
  \* a thread's clock does not run backwards between its own logging calls
  /\ \A i \in DOMAIN accepted :
        accepted[i].thread = rec.thread => accepted[i].created <= rec.created
  /\ calls' = calls + 1
  /\ LET n   == Len(accepted) + 1
         put == PutNowait(queue, n)
         exc == IF ~fmtOk THEN "format_error"
                ELSE IF put.raised THEN "dropped_full" ELSE "none"
     IN  IF exc # "none"
         THEN /\ emitOut' = IF Caught(exc) THEN exc ELSE "raised"
              /\ queue' = IF fmtOk THEN put.q ELSE queue
              /\ UNCHANGED << accepted, preClose >>
         ELSE /\ emitOut' = "queued"
              /\ queue' = put.q
              /\ accepted' = Append(accepted, rec)
              /\ preClose' = IF closePc = "none" THEN preClose \cup {n} ELSE preClose
  /\ UNCHANGED << drainPc, cur, logs, seq, dbWriter, written, failed,
                  closePc, purgeCut, purgeRet, lastQuery, purgeGone >>

\* a producer thread's logging call arriving at the handler
Emit(t, c, fmtOk) ==
  /\ LET pl == Payload(t)
     IN  EmitRecord([ thread |-> t, created |-> c, levelname |-> pl[1],
                      name |-> pl[2], user |-> pl[3] ], fmtOk)
  /\ UNCHANGED svc

\* ---------------------------------------------------------- drain thread
\* QueueListener._monitor: record = self.dequeue(True); the sentinel ends
\* the loop, anything else goes to handle -> DBHandler.emit -> _db_handler
Dequeue ==
  /\ drainPc = "idle"
  /\ queue # << >>
  /\ LET got == QueueGet(queue)
     IN  /\ queue' = got.q
         /\ IF got.item = Sentinel
            THEN /\ drainPc' = "exited"
                 /\ cur' = NoRecord
            ELSE /\ drainPc' = "handling"
                 /\ cur' = got.item
  /\ UNCHANGED << calls, accepted, emitOut, logs, seq, dbWriter, written,
                  failed, preClose, closePc, purgeCut, purgeRet, lastQuery >>
  /\ UNCHANGED << purgeGone, svc >>

\* _db_handler up to cursor.execute(INSERT): the statement takes SQLite's
\* write lock, which no other connection may hold
InsertBegin ==
  /\ drainPc = "handling"
  /\ dbWriter = "none"
  /\ dbWriter' = "drain"
  /\ drainPc' = "inserted"
  /\ UNCHANGED << calls, accepted, emitOut, queue, cur, logs, seq, written,
                  failed, preClose, closePc, purgeCut, purgeRet, lastQuery >>
  /\ UNCHANGED << purgeGone, svc >>

\* conn.commit(); conn.close(): the row becomes visible, the lock is freed
InsertCommit ==
  /\ drainPc = "inserted"
  /\ LET id == NextRowId(seq, logs)
     IN  /\ logs' = logs \cup { ToRow(id, cur, accepted[cur]) }
         /\ seq' = id
  /\ written' = written \cup {cur}
  /\ dbWriter' = "none"
  /\ drainPc' = "idle"
  /\ cur' = NoRecord
  /\ UNCHANGED << calls, accepted, emitOut, queue, failed, preClose,
                  closePc, purgeCut, purgeRet, lastQuery >>
  /\ UNCHANGED << purgeGone, svc >>

\* any exception in _db_handler (connect, a locked or failing store on
\* execute or commit): caught, reported on stderr, the record is dropped
InsertFail ==
  /\ drainPc \in {"handling", "inserted"}
  /\ failed' = failed \cup {cur}
  /\ logs' = IF drainPc = "inserted"
             THEN RowsOnError(logs, ToRow(NextRowId(seq, logs), cur, accepted[cur]))
             ELSE logs
  /\ dbWriter' = IF drainPc = "inserted" THEN "none" ELSE dbWriter
  /\ drainPc' = DrainAfterError
  /\ cur' = NoRecord
  /\ UNCHANGED << calls, accepted, emitOut, queue, seq, written, preClose,
                  closePc, purgeCut, purgeRet, lastQuery >>
  /\ UNCHANGED << purgeGone, svc >>

\* ----------------------------------------------------------------- close
\* AsyncDBLogHandler.close -> QueueListener.stop: enqueue_sentinel is
\* put_nowait(None), so queue.Full propagates out of close(); otherwise
\* the caller joins the drain thread
Close ==
  /\ closePc = "none"
  /\ LET put == PutNowait(queue, Sentinel)
     IN  /\ queue' = put.q
         /\ closePc' = IF put.raised THEN "raised" ELSE "joining"
  /\ UNCHANGED << calls, accepted, emitOut, drainPc, cur, logs, seq, dbWriter,
                  written, failed, preClose, purgeCut, purgeRet, lastQuery >>
  /\ UNCHANGED << purgeGone, svc >>

\* self._thread.join() returns once _monitor has ended; super().close()
CloseJoin ==
  /\ closePc = "joining"
  /\ drainPc = "exited"
  /\ closePc' = "returned"
  /\ UNCHANGED << calls, accepted, emitOut, queue, drainPc, cur, logs, seq,
                  dbWriter, written, failed, preClose, purgeCut, purgeRet,
                  lastQuery >>
  /\ UNCHANGED << purgeGone, svc >>

\* ----------------------------------------------------------------- purge
\* a DELETE that also takes the rows stamped exactly at the cutoff
PurgedRowsInclusive(tbl, cutoff) == { r \in tbl : r.timestamp <= cutoff }

\* rows DELETE FROM logs WHERE timestamp < ? removes
PurgedRows(tbl, cutoff) == { r \in tbl : r.timestamp < cutoff }

\* clear_old_logs up to cursor.execute(DELETE): cutoff_date is
\* (datetime.now() - timedelta(days)).isoformat(); the DELETE takes the
\* write lock.  While the drain thread holds it the call waits, and after
\* SQLite's busy timeout raises "database is locked" (purgeRet -1).
PurgeBegin(now, days) ==
  /\ dbWriter # "purge"
  /\ IF dbWriter = "none"
     THEN /\ dbWriter' = "purge"
          /\ purgeCut' = IsoFormat(now - days)
          /\ UNCHANGED purgeRet
     ELSE /\ purgeRet' = -1
          /\ UNCHANGED << dbWriter, purgeCut >>
  /\ UNCHANGED << calls, accepted, emitOut, queue, drainPc, cur, logs, seq,
                  written, failed, preClose, closePc, lastQuery >>
  /\ purgeGone' = {}
  /\ UNCHANGED svc

\* the DELETE statement at work: it removes the rows before the cutoff
\* one after another inside the purge's open transaction
PurgeDelete ==
  /\ dbWriter = "purge"
  /\ \E r \in PurgedRows(logs, purgeCut) \ purgeGone : purgeGone' = purgeGone \cup {r}
  /\ UNCHANGED << calls, accepted, emitOut, queue, drainPc, cur, logs, seq,
                  dbWriter, written, failed, preClose, closePc, purgeCut,
                  purgeRet, lastQuery, svc >>

\* deleted_count = cursor.rowcount; conn.commit(); return deleted_count
PurgeCommit ==
  /\ dbWriter = "purge"
  /\ purgeGone = PurgedRows(logs, purgeCut)
  /\ logs' = logs \ PurgedRows(logs, purgeCut)
  /\ purgeRet' = Cardinality(PurgedRows(logs, purgeCut))
  /\ purgeCut' = 0
  /\ dbWriter' = "none"
  /\ UNCHANGED << calls, accepted, emitOut, queue, drainPc, cur, seq, written,
                  failed, preClose, closePc, lastQuery >>
  /\ purgeGone' = {}
  /\ UNCHANGED svc

\* ----------------------------------------------------------------- query
\* "if level:" and its like: None and the empty string add no condition
\* (the empty timestamp text is 0)
GivenText(arg) == arg # None /\ arg[1] # ""
GivenTime(arg) == arg # None /\ arg[1] # 0

\* the WHERE clause get_logs builds
Matches(r, level, start_time, end_time, logger_name) ==
  /\ GivenText(level)       => r.level = level[1]
  /\ GivenTime(start_time)  => r.timestamp >= start_time[1]
  /\ GivenTime(end_time)    => r.timestamp <= end_time[1]
  /\ GivenText(logger_name) => r.logger_name = logger_name[1]

\* ORDER BY timestamp DESC: every arrangement of the rows with timestamps
\* descending; SQL leaves the order of rows with equal timestamps open
OrderedDesc(rows) ==
  { s \in [1..Cardinality(rows) -> rows] :
      /\ \A i, j \in DOMAIN s : i < j => s[i] # s[j] /\ s[i].timestamp >= s[j].timestamp }

\* LIMIT ?: the first n rows; a negative LIMIT is no limit in SQLite
Limit(s, n) == IF n < 0 \/ n >= Len(s) THEN s ELSE SubSeq(s, 1, n)

\* eval(text) of a stored dict text: a syntax error on an object repr, a
\* NameError on the bare word inf
EvalRaises(text) == \E k \in DOMAIN text : text[k] \in {"<object at 0x>", "inf"}
\* eval(text) of a stored dict text that holds a call expression runs
\* the call
EvalExecutes(text) == \E k \in DOMAIN text : text[k] = "call()"
Unrepr(tok) == CASE tok = "None"   -> "None"
                 [] tok = "call()" -> "returned"
                 [] OTHER          -> "lit"
Eval(text) == [k \in DOMAIN text |-> Unrepr(text[k])]

\* LogRecord(timestamp=row[0], ..., extra=eval(row[7]) if row[7] else None)
\* (id is not a field of the LogRecord; it is kept to tell rows apart)
FromRow(r) ==
  [ id           |-> r.id,
    timestamp    |-> r.timestamp,
    level        |-> r.level,
    logger_name  |-> r.logger_name,
    message      |-> r.message,
    exc_info     |-> r.exc_info,
    thread_name  |-> r.thread_name,
    process_name |-> r.process_name,
    extra        |-> IF r.extra = None THEN None ELSE Some(Eval(r.extra[1])) ]

\* a reader that sees the deletions of a transaction still open
DirtyView(tbl, gone) == tbl \ gone

\* the table a SELECT on another connection reads: SQLite shows a reader
\* only committed rows, never those an open transaction has changed
ReadView(tbl, gone) == tbl

\* the row loop reaches a row whose extra text holds a call and evaluates it
RowLoopExecutes(rows) ==
  \E i \in DOMAIN rows :
     /\ rows[i].extra # None /\ EvalExecutes(rows[i].extra[1])
     /\ \A j \in 1..(i - 1) : rows[j].extra = None \/ ~EvalRaises(rows[j].extra[1])

\* every outcome get_logs can have on table tbl: the list it returns, or
\* the exception of the row loop, and whether the loop ran stored text as
\* code (the rows are evaluated in order, up to the first that raises)
GetLogsOutcomes(tbl, level, start_time, end_time, logger_name, limit) ==
  LET hit == { r \in tbl : Matches(r, level, start_time, end_time, logger_name) }
  IN  { LET rows == Limit(s, limit)
        IN  IF \E i \in DOMAIN rows : rows[i].extra # None /\ EvalRaises(rows[i].extra[1])
            THEN [ok |-> FALSE, rows |-> << >>, executed |-> RowLoopExecutes(rows)]
            ELSE [ok |-> TRUE,  rows |-> [i \in DOMAIN rows |-> FromRow(rows[i])],
                  executed |-> RowLoopExecutes(rows)]
        : s \in OrderedDesc(hit) }

\* AsyncDBLogger.get_logs(level, start_time, end_time, logger_name, limit)
GetLogs(level, start_time, end_time, logger_name, limit) ==
  /\ \E out \in GetLogsOutcomes(ReadView(logs, purgeGone), level, start_time,
                                  end_time, logger_name, limit) :
       lastQuery' = [ level |-> level, start_time |-> start_time,
                      end_time |-> end_time, logger_name |-> logger_name,
                      limit |-> limit, ok |-> out.ok, rows |-> out.rows,
                      executed |-> out.executed ]
  /\ UNCHANGED << calls, accepted, emitOut, queue, drainPc, cur, logs, seq,
                  dbWriter, written, failed, preClose, closePc, purgeCut, purgeRet >>
  /\ UNCHANGED << purgeGone, svc >>

\* ------------------------------------------------------- setup_logging
\* what can be wrong under logs/: nothing; logs.db is not a database file;
\* the directory cannot be written
SinkFaults == {"none", "corrupt", "unwritable"}

\* settings.LOG_LEVEL, the log_level the lifespan hands to setup_logging
LogLevelSetting == "INFO"

\* AsyncDBLogHandler(db_path): _initialize_db connects and creates the
\* table before the listener is built; it raises on either fault
DbHandlerInit(fault) == fault = "none"

\* RotatingFileHandler('logs/app.log', ...): opens the file at once and
\* raises when the directory cannot be written
FileHandlerInit(fault) == fault # "unwritable"

\* a start that drops the table and creates it again
InitializeDbRecreate(store) ==
  [ schema |-> SchemaObjects, logs |-> {}, seq |-> 0 ]

\* _initialize_db: CREATE TABLE IF NOT EXISTS logs, CREATE INDEX IF NOT
\* EXISTS idx_timestamp, idx_level: what is missing is created, what is
\* there (rows and the AUTOINCREMENT counter included) is left alone
InitializeDb(store) ==
  [ schema |-> store.schema \cup SchemaObjects, logs |-> store.logs, seq |-> store.seq ]

\* setup_logging(log_level): level, handlers cleared, console handler;
\* try the database handler, on any exception the rotating file handler,
\* whose own exception is not caught
SetupLogging ==
  /\ setupOut = "none"
  /\ rootLevel' = LevelNo[LogLevelSetting]
  /\ IF DbHandlerInit(sinkFault)
     THEN LET store == InitializeDb([schema |-> schema, logs |-> logs, seq |-> seq])
          IN  /\ schema' = store.schema
              /\ logs' = store.logs
              /\ seq' = store.seq
              /\ rootHandlers' = {"console", "db"}
              /\ drainPc' = ListenerStart
              /\ setupOut' = "returned"
     ELSE IF FileHandlerInit(sinkFault)
     THEN /\ rootHandlers' = {"console", "file"}
          /\ setupOut' = "returned"
          /\ UNCHANGED << drainPc, schema, logs, seq >>
     ELSE /\ rootHandlers' = {"console"}
          /\ setupOut' = "raised"
          /\ UNCHANGED << drainPc, schema, logs, seq >>
  /\ UNCHANGED << calls, accepted, emitOut, queue, cur, dbWriter,
                  written, failed, preClose, closePc, purgeCut, purgeRet,
                  lastQuery, purgeGone, sinkFault, authSecret, resp,
                  cfgDbPath, lastEvent >>

\* ------------------------------------------------------- logger levels
\* logging.getLogger("httpx" | "httpcore" | "uvicorn").setLevel(...): the
\* loggers setup_logging gives a level of their own
LoggerLevel == [ l \in {"httpx", "httpcore", "uvicorn"} |->
                   IF l = "uvicorn" THEN "INFO" ELSE "WARNING" ]

\* db_handler.setLevel(logging.DEBUG)
DbHandlerLevel == "DEBUG"

\* Logger.getEffectiveLevel: the logger's own level, else that of the root
EffectiveLevel(logger, root) ==
  IF logger \in DOMAIN LoggerLevel THEN LevelNo[LoggerLevel[logger]] ELSE root

\* logger.<severity>(...) on logger `logger`: isEnabledFor compares with
\* the effective level; the record then goes to every handler of the root
\* logger whose own level admits it, whatever the root's level is
LogEvent(t, logger, sev, c) ==
  LET no      == LevelNo[sev]
      offered == /\ no >= EffectiveLevel(logger, rootLevel)
                 /\ "db" \in rootHandlers
                 /\ no >= LevelNo[DbHandlerLevel]
  IN  /\ lastEvent' = [ logger |-> logger, severity |-> no,
                        threshold |-> rootLevel, offered |-> offered ]
      /\ IF offered
         THEN EmitRecord([ thread |-> t, created |-> c, levelname |-> sev,
                           name |-> logger, user |-> "absent",
                           threshold |-> rootLevel ], TRUE)
         ELSE /\ calls < MaxRecords
              /\ calls' = calls + 1
              /\ UNCHANGED << accepted, emitOut, queue, preClose, drainPc, cur,
                              logs, seq, dbWriter, written, failed, closePc,
                              purgeCut, purgeRet, lastQuery, purgeGone >>
      /\ UNCHANGED << sinkFault, setupOut, rootHandlers, rootLevel, authSecret,
                      resp, schema, cfgDbPath >>

\* ------------------------------------------------------- /logging router
\* router = APIRouter(prefix="/logging"): no dependencies=[...], and no
\* endpoint declares Depends(verify_bearer)
RouterDependencies == {}

\* verify_bearer: open when no secret is set, else the bearer credentials
\* must equal the secret
VerifyBearer(secret, token) == secret = None \/ (token # None /\ token[1] = secret[1])

\* a request reaches its endpoint when every dependency of the route passes
Admitted(secret, token) ==
  "verify_bearer" \in RouterDependencies => VerifyBearer(secret, token)

\* methods of AsyncDBLogger declared "async def": none; get_logs and
\* clear_old_logs are plain functions
AsyncMethods == {}

\* "await x" on a value that is no awaitable raises TypeError
AwaitRaises(method) == method \notin AsyncMethods

\* aexception_handling_decorator: every exception that is not a
\* JSONResponseException is logged and replaced by
\* JSONResponseException(500); the app registers no handler for it, so
\* the server answers 500
ExceptionHandling(out) ==
  IF out.exc = "none"
  THEN out
  ELSE [ exc |-> "JSONResponseException", status |-> 500, body |-> << >> ]

Returned(body) == [ exc |-> "none", status |-> 200, body |-> body ]
Raised(exc, status) == [ exc |-> exc, status |-> status, body |-> << >> ]

\* limit: int = Query(100, ge=1, le=1000); days: int = Query(30, ge=1)
RouterLimit == 100
LimitMin    == 1
LimitMax    == 1000
DefaultDays == 30
DaysMin     == 1

\* FastAPI's validation of a query parameter against ge / le: a value
\* out of range is answered 422 and the endpoint is not called
ValidLimit(limit) == limit = None \/ (limit[1] >= LimitMin /\ limit[1] <= LimitMax)
ValidDays(days)   == days = None \/ days[1] >= DaysMin

\* str.upper() on the level names a client sends
Upper(name) == CASE name = "info"  -> "INFO"
                 [] name = "Warn"  -> "WARN"
                 [] name = "bogus" -> "BOGUS"
                 [] OTHER          -> name

\* LogEntry(**vars(log)): the model's fields, extra is not one of them
ToLogEntry(r) ==
  [ timestamp    |-> r.timestamp,
    level        |-> r.level,
    logger_name  |-> r.logger_name,
    message      |-> r.message,
    exc_info     |-> r.exc_info,
    thread_name  |-> r.thread_name,
    process_name |-> r.process_name ]

\* db_path in setup_logging: the argument, or logs/logs.db when it is None
SetupDbPath(arg) == IF arg = None THEN DefaultDbPath ELSE arg[1]

\* the db_path the lifespan passes: setup_logging(settings.LOG_LEVEL), none
LifespanDbPath == None

\* AsyncDBLogger(db_path=settings.LOG_DB_PATH): the file the endpoints
\* open.  When it is not the file the handler writes, connect creates an
\* empty file and the statement fails on the missing table.
RouterStoreFault ==
  IF cfgDbPath = SetupDbPath(LifespanDbPath) THEN sinkFault ELSE "no_table"

\* the response the client gets
Respond(op, token, arg, ran, out) ==
  resp' = [ op |-> op, token |-> token, arg |-> arg, ran |-> ran,
            status |-> out.status, body |-> out.body ]

\* a request stopped by a dependency of the route
Reject(op, token, arg) ==
  /\ Respond(op, token, arg, FALSE, Raised("HTTPException", 401))
  /\ UNCHANGED << rootLevel, logs, purgeRet, lastQuery >>

\* GET /logging/level
GetLevel(token) ==
  /\ setupOut = "returned"
  /\ IF ~Admitted(authSecret, token)
     THEN Reject("get_level", token, None)
     ELSE /\ Respond("get_level", token, None, TRUE,
                     ExceptionHandling(Returned(<< rootLevel >>)))
          /\ UNCHANGED << rootLevel, logs, purgeRet, lastQuery >>
  /\ UNCHANGED << calls, accepted, emitOut, queue, drainPc, cur, seq, dbWriter,
                  written, failed, preClose, closePc, purgeCut, purgeGone,
                  sinkFault, setupOut, rootHandlers, authSecret, schema,
                  cfgDbPath, lastEvent >>

\* PUT /logging/level {level: name}: setLevel raises ValueError on an
\* unknown name, which the endpoint turns into HTTPException(400)
UpdateLogLevel(token, name) ==
  /\ setupOut = "returned"
  /\ IF ~Admitted(authSecret, token)
     THEN Reject("put_level", token, Some(name))
     ELSE LET level == Upper(name)
          IN  /\ IF level \in DOMAIN LevelNo
                 THEN /\ rootLevel' = LevelNo[level]
                      /\ Respond("put_level", token, Some(name), TRUE,
                                 ExceptionHandling(Returned(<< level >>)))
                 ELSE /\ UNCHANGED rootLevel
                      /\ Respond("put_level", token, Some(name), TRUE,
                                 ExceptionHandling(Raised("HTTPException", 400)))
              /\ UNCHANGED << logs, purgeRet, lastQuery >>
  /\ UNCHANGED << calls, accepted, emitOut, queue, drainPc, cur, seq, dbWriter,
                  written, failed, preClose, closePc, purgeCut, purgeGone,
                  sinkFault, setupOut, rootHandlers, authSecret, schema,
                  cfgDbPath, lastEvent >>

\* GET /logging/entries: logs = await db_logger.get_logs(level, start_time,
\* end_time, logger_name, limit); return [LogEntry(**vars(log)) ...]
GetEntries(token, level, start_time, end_time, logger_name, limit) ==
  /\ setupOut = "returned"
  /\ IF ~Admitted(authSecret, token)
     THEN Reject("entries", token, limit)
     ELSE IF ~ValidLimit(limit)
     THEN /\ Respond("entries", token, limit, FALSE, Raised("RequestValidationError", 422))
          /\ UNCHANGED << rootLevel, logs, purgeRet, lastQuery >>
     ELSE IF RouterStoreFault # "none"
     THEN /\ Respond("entries", token, limit, FALSE,
                     ExceptionHandling(Raised("DatabaseError", 500)))
          /\ UNCHANGED << rootLevel, logs, purgeRet, lastQuery >>
     ELSE LET lim == IF limit = None THEN RouterLimit ELSE limit[1]
          IN  \E out \in GetLogsOutcomes(ReadView(logs, purgeGone), level, start_time,
                                          end_time, logger_name, lim) :
                /\ lastQuery' = [ level |-> level, start_time |-> start_time,
                                  end_time |-> end_time, logger_name |-> logger_name,
                                  limit |-> lim, ok |-> out.ok, rows |-> out.rows,
                                  executed |-> out.executed ]
                /\ Respond("entries", token, limit, TRUE,
                     ExceptionHandling(
                       IF ~out.ok THEN Raised("SyntaxError", 500)
                       ELSE IF AwaitRaises("get_logs") THEN Raised("TypeError", 500)
                       ELSE Returned([i \in DOMAIN out.rows |-> ToLogEntry(out.rows[i])])))
                /\ UNCHANGED << rootLevel, logs, purgeRet >>
  /\ UNCHANGED << calls, accepted, emitOut, queue, drainPc, cur, seq, dbWriter,
                  written, failed, preClose, closePc, purgeCut, purgeGone,
                  sinkFault, setupOut, rootHandlers, authSecret, schema,
                  cfgDbPath, lastEvent >>

\* DELETE /logging/cleanup: deleted_count = await
\* db_logger.clear_old_logs(days); the call itself runs to its return (the
\* DELETE is committed) before the await is applied to its result
CleanupLogs(token, days, now) ==
  /\ setupOut = "returned"
  /\ dbWriter = "none"
  /\ IF ~Admitted(authSecret, token)
     THEN Reject("cleanup", token, days)
     ELSE IF ~ValidDays(days)
     THEN /\ Respond("cleanup", token, days, FALSE, Raised("RequestValidationError", 422))
          /\ UNCHANGED << rootLevel, logs, purgeRet, lastQuery >>
     ELSE IF RouterStoreFault # "none"
     THEN /\ Respond("cleanup", token, days, FALSE,
                     ExceptionHandling(Raised("DatabaseError", 500)))
          /\ UNCHANGED << rootLevel, logs, purgeRet, lastQuery >>
     ELSE LET d    == IF days = None THEN DefaultDays ELSE days[1]
              gone == PurgedRows(logs, IsoFormat(now - d))
          IN  /\ logs' = logs \ gone
              /\ purgeRet' = Cardinality(gone)
              /\ Respond("cleanup", token, days, TRUE,
                   ExceptionHandling(
                     IF AwaitRaises("clear_old_logs") THEN Raised("TypeError", 500)
                     ELSE Returned(<< Cardinality(gone) >>)))
              /\ UNCHANGED << rootLevel, lastQuery >>
  /\ UNCHANGED << calls, accepted, emitOut, queue, drainPc, cur, seq, dbWriter,
                  written, failed, preClose, closePc, purgeCut, purgeGone,
                  sinkFault, setupOut, rootHandlers, authSecret, schema,
                  cfgDbPath, lastEvent >>

\* -------------------------------------------------------- specifications
\* the clock has passed every creation instant; days reach back over all
Now == {MaxTs + 1}
Days == 0..MaxTs

Next ==
  \/ \E t \in Producers, c \in Created, fmtOk \in BOOLEAN : Emit(t, c, fmtOk)
  \/ Dequeue
  \/ InsertBegin
  \/ InsertCommit
  \/ InsertFail
  \/ Close
  \/ CloseJoin
  \/ \E now \in Now, days \in Days : PurgeBegin(now, days)
  \/ PurgeDelete
  \/ PurgeCommit

Spec == Init /\ [][Next]_vars

\* the drain thread, a joining close() and a purge holding the lock are
\* scheduled: each keeps taking steps while it has one to take
DrainStep == Dequeue \/ InsertBegin \/ InsertCommit \/ InsertFail

LiveSpec ==
  /\ Spec
  /\ WF_vars(DrainStep)
  /\ WF_vars(CloseJoin)
  /\ WF_vars(PurgeDelete)
  /\ WF_vars(PurgeCommit)

\* tables the pipeline can have left in the store: rows of a previous run
\* (record number 0), keys 1..n
StoredRecords ==
  [ thread : {"p1"}, created : Created, levelname : LevelNames,
    name : LoggerNames, user : UserAttrs ]
Tables(n) ==
  { { ToRow(i, 0, f[i]) : i \in 1..n } : f \in [1..n -> StoredRecords] }

QInit ==
  /\ calls = 0
  /\ accepted = << >>
  /\ emitOut = "none"
  /\ queue = << >>
  /\ drainPc = ListenerStart
  /\ cur = NoRecord
  /\ \E n \in 0..MaxRows : logs \in Tables(n)
  /\ seq = Cardinality(logs)
  /\ dbWriter = "none"
  /\ written = {}
  /\ failed = {}
  /\ preClose = {}
  /\ closePc = "none"
  /\ purgeCut = 0
  /\ purgeRet = 0
  /\ lastQuery = NoQuery
  /\ ServiceUp

TextArgs(values) == {None, Some("")} \cup { Some(v) : v \in values }
TimeArgs == {None, Some(0)} \cup { Some(IsoFormat(c)) : c \in 1..(MaxTs + 1) }
Limits == 0..(MaxRows + 1)

\* one call on each stored table
QNext ==
  /\ lastQuery = NoQuery
  /\ \E level \in TextArgs(LevelNames), start_time \in TimeArgs, end_time \in TimeArgs,
        logger_name \in TextArgs(LoggerNames), limit \in Limits :
          GetLogs(level, start_time, end_time, logger_name, limit)

QuerySpec == QInit /\ [][QNext]_vars

\* the service process from its start: a store left by earlier runs (or a
\* faulty one), AUTH_SECRET set or not, the root logger as Python creates
\* it (WARNING, no handlers), no drain thread
ApiRecords ==
  [ thread : {"p1"}, created : Created, levelname : {"INFO"}, name : {"app"},
    user : {"absent", "obj"} ]
ApiTables(n) ==
  { { ToRow(i, 0, f[i]) : i \in 1..n } : f \in [1..n -> ApiRecords] }
\* a store file that does not exist yet, one whose creation was cut short
\* after the table or after the first index, and a complete one
StoredSchemas == { {}, {"logs"}, {"logs", "idx_timestamp"}, SchemaObjects }
DbPaths == {DefaultDbPath, "data/app.db"}
Secrets == {None, Some("s3cret")}
Tokens  == {None, Some("s3cret"), Some("wrong")}
LevelInputs == {"info", "DEBUG", "Warn", "bogus"}
ApiLimits == {None, Some(LimitMin - 1), Some(LimitMin), Some(MaxRows),
              Some(LimitMax), Some(LimitMax + 1)}
ApiDays   == {None, Some(DaysMin - 1)} \cup { Some(d) : d \in 1..MaxTs }

AInit ==
  /\ calls = 0
  /\ accepted = << >>
  /\ emitOut = "none"
  /\ queue = << >>
  /\ drainPc = "exited"
  /\ cur = NoRecord
  /\ sinkFault \in SinkFaults
  /\ IF sinkFault = "none"
     THEN \E n \in 0..MaxRows : logs \in ApiTables(n)
     ELSE logs = {}
  /\ IF sinkFault # "none" THEN schema = {}
     ELSE IF logs # {} THEN schema = SchemaObjects
     ELSE schema \in StoredSchemas
  /\ cfgDbPath \in DbPaths
  /\ lastEvent = NoEvent
  /\ seq = Cardinality(logs)
  /\ dbWriter = "none"
  /\ written = {}
  /\ failed = {}
  /\ preClose = {}
  /\ closePc = "none"
  /\ purgeCut = 0
  /\ purgeRet = 0
  /\ lastQuery = NoQuery
  /\ purgeGone = {}
  /\ setupOut = "none"
  /\ rootHandlers = {}
  /\ rootLevel = LevelNo["WARNING"]
  /\ authSecret \in Secrets
  /\ resp = NoResp

ANext ==
  \/ SetupLogging
  \/ \E token \in Tokens : GetLevel(token)
  \/ \E token \in Tokens, name \in LevelInputs : UpdateLogLevel(token, name)
  \/ \E token \in Tokens, level \in TextArgs({"INFO"}), limit \in ApiLimits :
        GetEntries(token, level, None, None, None, limit)
  \/ \E token \in Tokens, days \in ApiDays, now \in Now : CleanupLogs(token, days, now)

ApiSpec == AInit /\ [][ANext]_vars

\* one run of the service process on a store left by earlier runs: start-up
\* constructs the handler, shutdown closes it and the drain thread leaves
StartNext ==
  \/ SetupLogging
  \/ "db" \in rootHandlers /\ Close
  \/ Dequeue
  \/ CloseJoin

StartSpec == AInit /\ [][StartNext]_vars

\* clear_old_logs calls on a stored table with one get_logs call made at
\* any moment of them, from another thread
PNext ==
  \/ \E now \in Now, days \in Days : PurgeBegin(now, days)
  \/ PurgeDelete
  \/ PurgeCommit
  \/ /\ lastQuery = NoQuery
     /\ \E level \in TextArgs(LevelNames), limit \in Limits :
           GetLogs(level, None, None, None, limit)

\* the stored tables of the purge specification: rows of either level at
\* every creation instant
PurgeRecords ==
  [ thread : {"p1"}, created : Created, levelname : LevelNames, name : {"app"},
    user : {"absent"} ]
PurgeTables(n) ==
  { { ToRow(i, 0, f[i]) : i \in 1..n } : f \in [1..n -> PurgeRecords] }

PInit ==
  /\ calls = 0
  /\ accepted = << >>
  /\ emitOut = "none"
  /\ queue = << >>
  /\ drainPc = ListenerStart
  /\ cur = NoRecord
  /\ \E n \in 0..MaxRows : logs \in PurgeTables(n)
  /\ seq = Cardinality(logs)
  /\ dbWriter = "none"
  /\ written = {}
  /\ failed = {}
  /\ preClose = {}
  /\ closePc = "none"
  /\ purgeCut = 0
  /\ purgeRet = 0
  /\ lastQuery = NoQuery
  /\ ServiceUp

PurgeSpec == PInit /\ [][PNext]_vars

\* the running service: logging calls of the application and of library
\* loggers, level changes through PUT /logging/level, and the drain thread
EventLoggers == {"app", "uvicorn"}
Severities   == {"DEBUG", "INFO", "ERROR"}

LNext ==
  \/ \E logger \in EventLoggers, sev \in Severities, c \in Created :
        LogEvent("p1", logger, sev, c)
  \/ \E name \in LevelInputs : UpdateLogLevel(None, name)
  \/ Dequeue
  \/ InsertBegin
  \/ InsertCommit

LevelSpec == Init /\ [][LNext]_vars

\* ------------------------------------------------------- shared notions
RecordNos == 1..MaxRecords
InQueue(n) == \E i \in DOMAIN queue : queue[i] = n
InTable(n) == \E r \in logs : r.rec = n
\* the drain thread is done with record n
Handled(n) == n <= Len(accepted) /\ ~InQueue(n) /\ cur # n
\* record n is in every list an unfiltered get_logs() can return
ReturnedUnfiltered(n) ==
  \A out \in GetLogsOutcomes(logs, None, None, None, None, DefaultLimit) :
     /\ out.ok
     /\ \E i \in DOMAIN out.rows : \E r \in logs : r.rec = n /\ r.id = out.rows[i].id
Readable(tbl) == \A r \in tbl : r.extra = None \/ ~EvalRaises(r.extra[1])
EmitStep == calls' = calls + 1
AnyEmit == \E t \in Producers, c \in Created, fmtOk \in BOOLEAN : Emit(t, c, fmtOk)

C2_FullQueueDropsNewest ==
  /\ [][ EmitStep /\ QueueFull(queue)
           => /\ queue' = queue
              /\ accepted' = accepted
              /\ emitOut' \in {"dropped_full", "format_error"} ]_vars
  /\ [](calls < MaxRecords /\ QueueFull(queue) => ENABLED AnyEmit)

C2_Witness ==
  /\ emitOut = "dropped_full"
  /\ Len(queue) = QueueSize
  /\ \A i \in DOMAIN queue : queue[i] # Sentinel
  /\ \A i, j \in DOMAIN queue : i < j => queue[i] < queue[j]

\* ------------------------------------------------------------------- C3
\* C3: a failed write leaves the drain thread running (it goes back to
\* dequeue; it ends only on the stop marker of close()), and a record
\* handled after a failed one is written unless its own write fails.
C3_WriteFailureNotFatal ==
  /\ [][ failed' # failed => drainPc' = "idle" /\ queue' = queue ]_vars
  /\ [](drainPc = "exited" => closePc \in {"joining", "returned"})
  /\ [](\A m \in failed : \A n \in RecordNos :
          n > m /\ Handled(n) /\ n \notin failed => n \in written)

C3_Witness ==
  \E m \in failed : \E n \in written : n > m /\ InTable(n)

\* ------------------------------------------------------------------- C4
\* C4: rows get their keys in the order their records arrived at the
\* queue: of two stored rows the one whose record arrived first has the
\* smaller id (so also for two records of one producer thread), and no
\* record is written while one that arrived before it is still waiting.
C4_FifoIntoSink ==
  /\ \A a, b \in logs : a.rec < b.rec => a.id < b.id
  /\ \A n \in written : \A m \in 1..(n - 1) : Handled(m)

C4_Witness ==
  \E a, b \in logs :
     /\ a.rec < b.rec
     /\ accepted[a.rec].thread = accepted[b.rec].thread
     /\ \E k \in a.rec..b.rec : accepted[k].thread # accepted[a.rec].thread

\* ------------------------------------------------------------------- C5
\* C5: a record the queue accepted has at most one row, every row is the
\* row of an accepted record whose INSERT committed, and a record the
\* drain thread is done with is either written or reported failed, never
\* both (a record with a reported failure has no row).
C5_ExactlyOnce ==
  /\ \A n \in RecordNos : Cardinality({ r \in logs : r.rec = n }) <= 1
  /\ \A a, b \in logs : a.id = b.id => a = b
  /\ \A r \in logs : r.rec \in 1..Len(accepted) /\ r.rec \in written
  /\ written \cap failed = {}
  /\ \A r \in logs : r.rec \notin failed
  /\ \A n \in 1..Len(accepted) : Handled(n) <=> n \in written \cup failed

C5_Witness ==
  \E n \in written : \E m \in failed : InTable(n) /\ Handled(n) /\ Handled(m)

\* ------------------------------------------------------------------- C6
\* C6: close() never raises, and once it has returned the drain thread
\* has exited and every record queued before the call has been written.
C6_CloseDrainsAndReturns ==
  /\ closePc # "raised"
  /\ closePc = "returned" => drainPc = "exited" /\ preClose \subseteq written

\* ------------------------------------------------------------------- C7
\* C7: once close() has put its stop marker on the queue, no emit adds a
\* record to the queue.
C7_NoAcceptanceAfterClose ==
  [][ (closePc \in {"joining", "returned"}) => (accepted' = accepted) ]_vars

\* ------------------------------------------------------------------- C8
\* C8: the only thread that ever holds the store's write lock is the
\* drain thread.
C8_SingleWriterIsDrain == dbWriter \in {"none", "drain"}

\* ------------------------------------------------------------------- C9
\* C9: the list get_logs returns is in descending timestamp order, rows
\* of equal timestamp in descending id order.
C9_QueryOrdering ==
  lastQuery.ok =>
    \A i, j \in DOMAIN lastQuery.rows :
       i < j => LET a == lastQuery.rows[i]
                    b == lastQuery.rows[j]
                IN  \/ a.timestamp > b.timestamp
                    \/ a.timestamp = b.timestamp /\ a.id > b.id

\* ------------------------------------------------------------------ C10
\* a row satisfies every supplied filter: a filter is supplied unless it
\* is None
SatisfiesSupplied(r, q) ==
  /\ q.level # None       => r.level = q.level[1]
  /\ q.start_time # None  => r.timestamp >= q.start_time[1]
  /\ q.end_time # None    => r.timestamp <= q.end_time[1]
  /\ q.logger_name # None => r.logger_name = q.logger_name[1]

\* C10: get_logs returns a list, and the list is the first `limit` rows of
\* the rows that satisfy every supplied filter: that many rows (all of
\* them when fewer), each satisfying the filters, none twice, and no row
\* left out is newer than a row returned.
C10_QueryFiltering ==
  LET q   == lastQuery
      hit == { FromRow(r) : r \in { x \in logs : SatisfiesSupplied(x, q) } }
      got == { q.rows[i] : i \in DOMAIN q.rows }
  IN  /\ q.ok
      /\ Len(q.rows) = IF q.limit < Cardinality(hit) THEN q.limit ELSE Cardinality(hit)
      /\ Cardinality(got) = Len(q.rows)
      /\ got \subseteq hit
      /\ \A r \in hit \ got : \A g \in got : g.timestamp >= r.timestamp

\* ------------------------------------------------------------------ C11
\* the step in which a clear_old_logs commits
PurgeCommits == dbWriter = "purge" /\ dbWriter' = "none"

\* C11: a purge with cutoff c deletes exactly the rows whose timestamp is
\* strictly less than c and returns how many it deleted; a second purge
\* with the same cutoff right after it would delete 0 rows; a cutoff no
\* newer than any row deletes nothing and returns 0; a cutoff newer than
\* every row returns the row count and leaves the table empty.
C11_PurgeExactness ==
  [][ PurgeCommits =>
        LET c    == purgeCut
            old  == { r \in logs : r.timestamp < c }
            keep == { r \in logs : ~(r.timestamp < c) }
        IN  /\ logs' = keep
            /\ purgeRet' = Cardinality(old)
            /\ purgeRet' = Cardinality(logs) - Cardinality(logs')
            /\ Cardinality(PurgedRows(logs', c)) = 0
            /\ (\A r \in logs : r.timestamp >= c) => logs' = logs /\ purgeRet' = 0
            /\ (\A r \in logs : r.timestamp < c)
                  => logs' = {} /\ purgeRet' = Cardinality(logs) ]_vars

\* a purge has deleted a row and kept another, and a row stamped exactly
\* at a cutoff a purge can have is stored
C11_Witness ==
  /\ purgeRet >= 1
  /\ logs # {}
  /\ dbWriter = "none"
  /\ \E r \in logs : \E now \in Now, days \in Days : r.timestamp = IsoFormat(now - days)

\* ------------------------------------------------------------------ C12
\* the request carried what verify_bearer asks for
Authorized(r) == VerifyBearer(authSecret, r.token)

\* the endpoints open the sound store the pipeline writes
SoundStore == sinkFault = "none" /\ cfgDbPath = DefaultDbPath

\* C12: GET /logging/entries with valid parameters on a sound store is
\* answered 200 with the entries get_logs yielded for the filters, most
\* recent first.
C12_EntriesServed ==
  resp.op = "entries" /\ ValidLimit(resp.arg) /\ SoundStore /\ Authorized(resp)
    => /\ resp.status = 200
       /\ lastQuery.ok
       /\ resp.body = [i \in DOMAIN lastQuery.rows |-> ToLogEntry(lastQuery.rows[i])]
       /\ \A i, j \in DOMAIN resp.body :
             i < j => resp.body[i].timestamp >= resp.body[j].timestamp

\* ------------------------------------------------------------------ C13
\* C13: DELETE /logging/cleanup?days=N with N >= 1 leaves no row older
\* than now minus N days and is answered 200 with the count of rows
\* deleted.
C13_CleanupServed ==
  resp.op = "cleanup" /\ resp.arg # None /\ ValidDays(resp.arg)
    /\ SoundStore /\ Authorized(resp)
    => /\ \A now \in Now : PurgedRows(logs, IsoFormat(now - resp.arg[1])) = {}
       /\ resp.status = 200
       /\ resp.body = << purgeRet >>

\* ------------------------------------------------------------------ C14
\* C14: PUT /logging/level with a name that, upper-cased, is no severity
\* name is answered 400 and leaves the root threshold as it was; with a
\* severity name in any case it sets the root threshold to that severity.
C14_LevelUpdate ==
  [][ resp' # resp /\ resp'.op = "put_level" /\ Authorized(resp')
        => LET level == Upper(resp'.arg[1])
           IN  IF level \in DOMAIN LevelNo
               THEN rootLevel' = LevelNo[level]
               ELSE resp'.status = 400 /\ rootLevel' = rootLevel ]_vars

\* ------------------------------------------------------------------ C15
\* C15: with AUTH_SECRET set, a request to /logging without a bearer
\* token equal to the secret is refused: it changes neither the root
\* threshold nor the table, runs no query and returns no data; with no
\* AUTH_SECRET no request is refused for its token.
C15_AccessGating ==
  [][ resp' # resp =>
        IF Authorized(resp')
        THEN resp'.status # 401
        ELSE /\ resp'.status = 401
             /\ ~resp'.ran
             /\ resp'.body = << >>
             /\ rootLevel' = rootLevel
             /\ logs' = logs
             /\ lastQuery' = lastQuery ]_vars

\* ------------------------------------------------------------------ C17
\* the requested limit brought into [1, 1000]; 100 when omitted
Clamp(limit) ==
  IF limit = None THEN RouterLimit
  ELSE IF limit[1] < LimitMin THEN LimitMin
  ELSE IF limit[1] > LimitMax THEN LimitMax
  ELSE limit[1]

\* C17: for any requested limit the entries query is run with the limit
\* clamped into [1, 1000] (100 when omitted), and the response holds no
\* more entries than the clamped limit.
C17_LimitClamped ==
  resp.op = "entries" /\ SoundStore /\ Authorized(resp)
    => /\ resp.ran
       /\ lastQuery.limit = Clamp(resp.arg)
       /\ Len(resp.body) <= Clamp(resp.arg)

\* ------------------------------------------------------------------ C18
\* C18: when the database handler cannot be constructed, setup_logging
\* still returns, the root logger has the console handler and a file
\* handler, and no drain thread runs.
C18_DegradedFallback ==
  setupOut # "none" /\ ~DbHandlerInit(sinkFault)
    => /\ setupOut = "returned"
       /\ rootHandlers = {"console", "file"}
       /\ drainPc = "exited"

ScalarAttrs == {"absent", "lit", "inf"}

\* the LogRecord read back equals the one written, field for field
SameRecord(read, wrote) ==
  /\ read.timestamp = wrote.timestamp
  /\ read.level = wrote.level
  /\ read.logger_name = wrote.logger_name
  /\ read.message = wrote.message
  /\ read.exc_info = wrote.exc_info
  /\ read.thread_name = wrote.thread_name
  /\ read.process_name = wrote.process_name
  /\ read.extra = Some(wrote.extra)

\* the record a stored row was written from
WrittenFrom(r) == { rec \in StoredRecords : ToRow(r.id, r.rec, rec) = r }

\* C19: when every stored row was written from a record whose extra
\* attributes are scalars (or absent), a get_logs without filters and
\* with room for every row returns, for each row, a LogRecord equal field
\* for field to the LogRecord _db_handler wrote.
C19_ExtraRoundTrip ==
  /\ lastQuery # NoQuery
  /\ lastQuery.level = None /\ lastQuery.logger_name = None
  /\ lastQuery.start_time = None /\ lastQuery.end_time = None
  /\ lastQuery.limit >= Cardinality(logs)
  /\ \A r \in logs : \A rec \in WrittenFrom(r) : rec.user \in ScalarAttrs
  => /\ lastQuery.ok
     /\ \A r \in logs : \A rec \in WrittenFrom(r) :
          \E i \in DOMAIN lastQuery.rows :
             /\ lastQuery.rows[i].id = r.id
             /\ SameRecord(lastQuery.rows[i], ToLogRecord(rec))

\* ------------------------------------------------------------------ C20
\* C20: what a get_logs call returns while a clear_old_logs is running is
\* a result of the query on the table as it was before the purge or on
\* the table as the purge leaves it, never on a table from which only
\* some of the rows older than the cutoff are gone.
C20_PurgeAtomicity ==
  [][ lastQuery' # lastQuery =>
        LET q      == lastQuery'
            doomed == IF dbWriter = "purge" THEN PurgedRows(logs, purgeCut) ELSE {}
        IN  \E tbl \in {logs, logs \ doomed} :
               [ok |-> q.ok, rows |-> q.rows, executed |-> q.executed] \in
                  GetLogsOutcomes(tbl, q.level, q.start_time, q.end_time,
                                  q.logger_name, q.limit) ]_vars

\* a query without filters answered while the DELETE had removed one of
\* two rows older than the cutoff: it returned both
C20_Witness ==
  /\ dbWriter = "purge"
  /\ Cardinality(purgeGone) = 1
  /\ Cardinality(PurgedRows(logs, purgeCut)) = 2
  /\ lastQuery.ok /\ lastQuery.level = None
  /\ Len(lastQuery.rows) = 2

\* ------------------------------------------------------------------ C21
\* the step in which setup_logging constructs the database handler
HandlerConstructed == setupOut = "none" /\ setupOut' = "returned" /\ "db" \in rootHandlers'

\* C21: constructing the handler on an existing store leaves every row
\* (and the key counter) as it was and leaves the store with the logs
\* table and both indexes; running _initialize_db again on the result, any
\* number of times, changes nothing.
C21_InitIdempotent ==
  [][ HandlerConstructed =>
        LET once  == [schema |-> schema', logs |-> logs', seq |-> seq']
            twice == InitializeDb(once)
        IN  /\ logs' = logs
            /\ seq' = seq
            /\ schema' = {"logs", "idx_timestamp", "idx_level"}
            /\ twice = once
            /\ InitializeDb(twice) = once ]_vars

\* the handler was constructed on a store that held rows
C21_Witness ==
  /\ setupOut = "returned"
  /\ "db" \in rootHandlers
  /\ resp = NoResp
  /\ Cardinality(logs) = MaxRows
  /\ schema = SchemaObjects

\* ------------------------------------------------------------------ C22
\* C22: whatever LOG_DB_PATH is configured, the file the database handler
\* writes is the file the entries and cleanup endpoints open.
C22_SharedStorePath ==
  setupOut = "returned" /\ "db" \in rootHandlers /\ resp.op \in {"entries", "cleanup"}
    => SetupDbPath(LifespanDbPath) = cfgDbPath

\* ------------------------------------------------------------------ C23
\* C23: get_logs never runs the stored text of an extra column as code;
\* whatever the text is, reading it only yields data.
C23_NoExecutionOnRead == ~lastQuery.executed

\* ------------------------------------------------------------------ C24
\* C24: in every reachable state, whatever the producers and the drain
\* thread do, the queue holds at most queue_size entries (records and the
\* stop marker of close() together).
C24_QueueBounded == Len(queue) <= QueueSize

\* the queue is at capacity with records of both producers and a
\* producer has just been turned away
C24_Witness ==
  /\ Len(queue) = QueueSize
  /\ emitOut = "dropped_full"
  /\ \A i \in DOMAIN queue : queue[i] # Sentinel
  /\ \E i, j \in DOMAIN queue : accepted[queue[i]].thread # accepted[queue[j]].thread

\* ------------------------------------------------------------------ C25
\* C25: a logging call is handed to the database handler exactly when its
\* severity is at least the root threshold of that moment, and no row of
\* the table comes from an event whose severity was below the root
\* threshold in force when it was emitted.
C25_ThresholdGating ==
  /\ lastEvent # NoEvent => (lastEvent.offered <=> lastEvent.severity >= lastEvent.threshold)
  /\ \A r \in logs : r.rec \in DOMAIN accepted
        => LevelNo[r.level] >= accepted[r.rec].threshold

\* ------------------------------------------------------------------ C26
\* C26: a cleanup request that deletes rows from the logs table is answered
\* with success; equivalently, a cleanup request answered with an error
\* has deleted no row.
C26_CleanupErrorNoEffect ==
  [][ (resp'.op = "cleanup" /\ resp'.ran /\ purgeRet' = Cardinality(logs \ logs')
         /\ logs' # logs)
        => resp'.status = 200 ]_vars

\* ------------------------------------------------------------------ C27
\* C27: whatever rows emit and the drain thread have put in the table,
\* rows of records with object-valued extra attributes included, get_logs
\* returns a list for every choice of level and logger filter; no stored
\* row makes a query that selects it fail.
C27_PersistedReadable ==
  \A level \in {None} \cup {Some(l) : l \in LevelNames},
      logger_name \in {None} \cup {Some(n) : n \in LoggerNames} :
    \A out \in GetLogsOutcomes(logs, level, None, None, logger_name, DefaultLimit) :
      out.ok

====
